---- MODULE Spec2Model ----
(***************************************************************************)
(* RideCanvas: the wizard of src/App.tsx (upload, analyze, customize,      *)
(* preview, checkout, paid render), the client calls of                    *)
(* src/services/geminiService.ts and the stripe service, and the           *)
(* serverless handlers under src/api.                                      *)
(*                                                                         *)
(* Every async handler is split at its awaits: the part before the first   *)
(* await is the action named after the handler, each continuation is an    *)
(* action of its own, and the suspended invocation is a record in `tasks`  *)
(* holding what the closure captured.  User actions interleave with the    *)
(* continuations wherever the rendered UI offers them.                     *)
(*                                                                         *)
(* Nullable values: a photo or an image is a positive number and 0 is      *)
(* null/undefined (both falsy); a nullable object is <<>> (null) or <<o>>. *)
(***************************************************************************)
EXTENDS Integers, Sequences, FiniteSets, Bags, TLC

\* ---------------------------------------------------------------- bounds
NumPhotos == 1          \* distinct files the user can upload
NumImages == 2          \* distinct images the render model can return
MaxSessions == 1        \* checkout sessions the payment provider creates
MaxInFlight == 1        \* handler invocations suspended at an await
MaxTimers == 1          \* pending inner setTimeout(…, 600) callbacks
MaxRuns == 2            \* paid pipeline runs counted per stored record

Photos == 1..NumPhotos
Images == 1..NumImages
SessionIds == 1..MaxSessions

\* ------------------------------------------------- enums of src/types.ts
UPLOAD == 1
ANALYZING == 2
CUSTOMIZE == 3
GENERATING == 4
PREVIEW == 5
COMPLETE == 6

Undefined == "undefined"
MOUNTAINS == "Mountain Peaks"
FOREST == "Nordic Forest"
Backgrounds == {MOUNTAINS, FOREST}

CLEAN_BUILD == "Clean Build"
AS_PHOTOGRAPHED == "As Photographed"
SIDE_PROFILE == "Side Profile"

STOCK == "Stock"
LIFTED == "Lifted + AT"
STEELIES == "Steelies + Mud"
LOWERED == "Lowered + Wheels"
StanceStyles == {STOCK, LIFTED, STEELIES, LOWERED}

\* VehicleAnalysis as far as the wizard reads it.  `photo` is the upload the
\* analysis was computed from; make stands for the fields the schema requires
\* (make, model, year, color, ...); suggestedBackground is optional.  The
\* complete results the vision model returns here: an off-road vehicle with a
\* suggested scene, or a road vehicle without one.
MAKE == "Land Rover"
VehicleAnalysis ==
  {[photo |-> p, isOffroad |-> TRUE, suggestedBackground |-> FOREST,
    make |-> MAKE] : p \in Photos}
    \cup
  {[photo |-> p, isOffroad |-> FALSE, suggestedBackground |-> Undefined,
    make |-> MAKE] : p \in Photos}
\* a JSON object of the vision model that lacks a required field
IncompleteAnalysis ==
  {[photo |-> p, isOffroad |-> FALSE, suggestedBackground |-> Undefined,
    make |-> Undefined] : p \in Photos}

Null == <<>>
Some(o) == <<o>>
Val(w) == w[1]

\* --------------------------------------------------------------- state
VARIABLES
  page,                \* "app": the SPA is loaded; "checkout": hosted payment page
  checkoutSession,     \* session shown by the hosted payment page (0 = none)
  url,                 \* query parameters of window.location
  localStorage,        \* value under 'ridecanvas_pending_art': Null or Some(record)
  created,             \* number of checkout sessions created so far
  paid,                \* sessions whose payment_status is 'paid'
  imageBase64, step, background, position, fidelity, stance, selectedMods,
  analysis, previewArt, artSet, hasPaid, isProcessingPayment,
  revealTimer,         \* the timers of useEffect [step, analysis] are armed
  customizeTimers,     \* inner setTimeout(() => setStep(CUSTOMIZE), 600) pending
  tasks,               \* handler invocations suspended at an await
  slots,               \* handler invocations the run lets be suspended at once
  canvas,              \* the locals of one compressImage call (img.onload)
  runsStarted,         \* history: paid pipeline runs started from the stored record
  recordSession,       \* history: checkout session created by the purchase that
                       \* wrote the stored record, 0 when there is none
  render,              \* one request being handled by a render endpoint
  last,                \* history: outcome of the handler that finished in the last step
  sent                 \* history: body of the render request sent in the last step

memory == <<imageBase64, step, background, position, fidelity, stance,
            selectedMods, analysis, previewArt, artSet, hasPaid,
            isProcessingPayment>>
timers == <<revealTimer, customizeTimers>>
browser == <<page, checkoutSession, url>>
provider == <<created, paid>>
ledger == <<runsStarted, recordSession>>
wizard == <<browser, localStorage, provider, memory, timers, tasks, last, sent,
            slots, ledger>>
vars == <<wizard, canvas, render>>

\* ------------------------------------------------------------- helpers
NoParams == [session_id |-> 0, cancelled |-> FALSE, art |-> FALSE, dev |-> FALSE]
DevUrl == [NoParams EXCEPT !.dev = TRUE]
SuccessUrl(s) == [NoParams EXCEPT !.session_id = s, !.art = TRUE]
CancelUrl == [NoParams EXCEPT !.cancelled = TRUE]
UserUrls == {NoParams, DevUrl, CancelUrl} \cup {SuccessUrl(s) : s \in SessionIds}

\* src/App.tsx:66
isDevMode == url.dev

\* history: the handler invocation that ended (or restored the record) in the
\* step just taken, how it ended, the calls it had issued, the alert() it
\* raised, its argument, the reference image it passed on, and (handleFile)
\* what the vision model had answered
NoRun ==
  [owner |-> "none", result |-> "none", log |-> <<>>, alert |-> "",
   arg |-> 0, ref |-> 0, abandoned |-> FALSE, cause |-> ""]
Finished(owner, result, log, alert) ==
  [owner |-> owner, result |-> result, log |-> log, alert |-> alert,
   arg |-> 0, ref |-> 0, abandoned |-> FALSE, cause |-> ""]
FinishedTask(t, result, alert) ==
  [owner |-> t.owner, result |-> result, log |-> t.log, alert |-> alert,
   arg |-> t.arg, ref |-> t.ref, abandoned |-> t.abandoned, cause |-> ""]

\* a suspended handler invocation
\* st: the parsed record held by handlePaymentReturn; ref: the reference image
\* of the render request; desktop: the desktop render once returned; arg: the
\* file (handleFile) or the session id (handlePaymentReturn); abandoned: the
\* user pressed New (startNew) while the invocation was suspended
Task(owner, kind, log, st, ref, desktop, arg) ==
  [owner |-> owner, kind |-> kind, log |-> log, st |-> st,
   ref |-> ref, desktop |-> desktop, arg |-> arg, abandoned |-> FALSE]
\* tasks is a bag: two invocations may hold the same data
InFlight == BagToSet(tasks)
CanSpawn == BagCardinality(tasks) < slots
Spawn(t) == tasks (+) SetToBag({t})
Drop(t) == tasks (-) SetToBag({t})
Become(t, t2) == (tasks (-) SetToBag({t})) (+) SetToBag({t2})
\* startNew cancels nothing: the suspended invocations stay in flight
Abandon(t) == [t EXCEPT !.abandoned = TRUE]
AllAbandoned == BagOfAll(Abandon, tasks)

\* body of a render request (JSON.stringify in generateArt / generateRemainingFormats)
RenderRequest(image, prev, an, bg, fid, pos, st, mods) ==
  [image |-> image, previewArt |-> prev, analysis |-> an, background |-> bg,
   fidelity |-> fid, position |-> pos, stance |-> st, selectedMods |-> mods]

\* variant of getStanceOptions that keeps the lowered stance for off-road vehicles
getStanceOptions_withLowered(an) ==
  IF an # Null /\ Val(an).isOffroad
    THEN <<STOCK, LIFTED, STEELIES, LOWERED>>
    ELSE <<STOCK, LOWERED>>

\* src/App.tsx:347-359
getStanceOptions(an) ==
  IF an # Null /\ Val(an).isOffroad
    THEN <<STOCK, LIFTED, STEELIES>>
    ELSE <<STOCK, LOWERED>>

Range(f) == {f[i] : i \in DOMAIN f}

\* useEffect [step, analysis] (src/App.tsx:89-105): the cleanup clears the
\* outer timers and the effect re-arms them when step or analysis changed.
RevealEffect(newStep, newAnalysis, analysisSet) ==
  IF newStep = step /\ ~analysisSet
    THEN revealTimer
    ELSE newStep = ANALYZING /\ newAnalysis # Null

\* useEffect [analysis] (src/App.tsx:79-86): the background after an update
\* that called setAnalysis(newAnalysis) and left the background at bg.
SuggestionEffect(newAnalysis, bg) ==
  IF newAnalysis # Null /\ Val(newAnalysis).suggestedBackground # Undefined
    THEN Val(newAnalysis).suggestedBackground
    ELSE bg

\* -------------------------------------------------------- compressImage
\* src/services/geminiService.ts:18-19
MAX_IMAGE_DIMENSION == 1400
MAX_PAYLOAD_SIZE_BYTES == 3145728
\* quality in hundredths.  The doubles the code computes from 0.75 by
\* `quality -= 0.1` are 0.65, 0.55, 0.45000000000000007, 0.3500000000000001
\* and 0.2500000000000001: each compares with 0.3 as its hundredth does with 30.
START_QUALITY == 75
QUALITY_STEP == 10
QUALITY_FLOOR == 30
FALLBACK_QUALITY == 60
\* smallerRatio = 0.7 as a fraction
SMALLER_RATIO_NUM == 7
SMALLER_RATIO_DEN == 10

\* Math.round(n / d) for n >= 0, d > 0.  The code rounds a product of doubles:
\* where the exact value lies halfway between two integers the double can fall
\* on either side (Math.round(45 * 0.7) is 31, Math.round(5 * 0.7) is 4), so
\* both neighbours are results; everywhere else the nearest integer is.
MathRound(n, d) ==
  LET q == n \div d
      r == n % d
  IN IF 2 * r < d THEN {q}
     ELSE IF 2 * r > d THEN {q + 1}
     ELSE {q, q + 1}

Larger(a, b) == IF a >= b THEN a ELSE b

\* src/services/geminiService.ts:29-37: ratio = Math.min(MAX / width, MAX / height)
\* is MAX over the longer side
ResizedSides(w, h) ==
  IF w > MAX_IMAGE_DIMENSION \/ h > MAX_IMAGE_DIMENSION
    THEN MathRound(w * MAX_IMAGE_DIMENSION, Larger(w, h))
           \X MathRound(h * MAX_IMAGE_DIMENSION, Larger(w, h))
    ELSE {<<w, h>>}

\* sides of the files tried, in pixels
ImageSides == {1, 700, 1400, 1401, 2800, 6000}

\* canvas.toDataURL('image/jpeg', q).split(',')[1].length.  The encoder is the
\* browser's: a canvas without pixels yields "data:," (no payload); otherwise
\* the payload is one of the sampled lengths, never more than the raw pixels
\* would take (3 bytes, 4 base64 characters, per pixel), and never shorter at
\* a higher quality or a larger canvas than an encoding made before.
SMALL_PAYLOAD == 1024
PayloadSamples ==
  {MAX_PAYLOAD_SIZE_BYTES \div 2, MAX_PAYLOAD_SIZE_BYTES,
   MAX_PAYLOAD_SIZE_BYTES + 1, 2 * MAX_PAYLOAD_SIZE_BYTES}
Encoding(w, h, q, len) == [w |-> w, h |-> h, q |-> q, len |-> len]
Monotone(e, p) ==
  /\ (e.w <= p.w /\ e.h <= p.h /\ e.q <= p.q) => e.len <= p.len
  /\ (e.w >= p.w /\ e.h >= p.h /\ e.q >= p.q) => e.len >= p.len
toDataURL(w, h, q, before) ==
  IF w = 0 \/ h = 0 THEN {0}
  ELSE {len \in {SMALL_PAYLOAD} \cup {l \in PayloadSamples : l <= 4 * w * h} :
          \A i \in DOMAIN before : Monotone(Encoding(w, h, q, len), before[i])}

\* the locals of compressImage: img.width/height, width/height, canvas.width/
\* height, quality, base64Data.length, and the encodings made so far
Canvas(pc, decodable, iw, ih) ==
  [pc |-> pc, decodable |-> decodable, imgWidth |-> iw, imgHeight |-> ih,
   width |-> 0, height |-> 0, canvasWidth |-> 0, canvasHeight |-> 0,
   quality |-> 0, length |-> 0, encodes |-> <<>>]
NoCanvas == Canvas("idle", FALSE, 0, 0)

\* img.onerror (src/services/geminiService.ts:69): the file is no image
compressImage_onerror ==
  /\ canvas.pc = "reading"
  /\ ~canvas.decodable
  /\ canvas' = [canvas EXCEPT !.pc = "rejected"]
  /\ UNCHANGED <<wizard, render>>

\* img.onload, the resize (src/services/geminiService.ts:28-43)
compressImage_resize ==
  /\ canvas.pc = "reading"
  /\ canvas.decodable
  /\ \E sides \in ResizedSides(canvas.imgWidth, canvas.imgHeight) :
       canvas' = [canvas EXCEPT !.pc = "resized",
                                !.width = sides[1], !.height = sides[2],
                                !.canvasWidth = sides[1],
                                !.canvasHeight = sides[2]]
  /\ UNCHANGED <<wizard, render>>

\* the first encoding (src/services/geminiService.ts:45-47)
compressImage_encode ==
  /\ canvas.pc = "resized"
  /\ \E len \in toDataURL(canvas.canvasWidth, canvas.canvasHeight,
                          START_QUALITY, canvas.encodes) :
       canvas' = [canvas EXCEPT
                    !.pc = "loop", !.quality = START_QUALITY, !.length = len,
                    !.encodes = <<Encoding(canvas.canvasWidth, canvas.canvasHeight,
                                           START_QUALITY, len)>>]
  /\ UNCHANGED <<wizard, render>>

\* variant of the loop test that looks at the quality only
LoopCondition_qualityOnly == canvas.quality > QUALITY_FLOOR

\* while (base64Data.length > MAX_PAYLOAD_SIZE_BYTES && quality > 0.3)
LoopCondition ==
  canvas.length > MAX_PAYLOAD_SIZE_BYTES /\ canvas.quality > QUALITY_FLOOR

\* one iteration of the loop (src/services/geminiService.ts:50-54)
compressImage_lowerQuality ==
  /\ canvas.pc = "loop"
  /\ LoopCondition
  /\ LET quality == canvas.quality - QUALITY_STEP
     IN \E len \in toDataURL(canvas.canvasWidth, canvas.canvasHeight, quality,
                             canvas.encodes) :
          canvas' = [canvas EXCEPT
                       !.quality = quality, !.length = len,
                       !.encodes = Append(@, Encoding(canvas.canvasWidth,
                                                      canvas.canvasHeight,
                                                      quality, len))]
  /\ UNCHANGED <<wizard, render>>

\* the loop is left with the payload still too large: shrink, encode once at
\* 0.6 and resolve (src/services/geminiService.ts:56-66)
compressImage_shrink ==
  /\ canvas.pc = "loop"
  /\ ~LoopCondition
  /\ canvas.length > MAX_PAYLOAD_SIZE_BYTES
  /\ \E w \in MathRound(canvas.width * SMALLER_RATIO_NUM, SMALLER_RATIO_DEN),
        h \in MathRound(canvas.height * SMALLER_RATIO_NUM, SMALLER_RATIO_DEN) :
       \E len \in toDataURL(w, h, FALLBACK_QUALITY, canvas.encodes) :
         canvas' = [canvas EXCEPT
                      !.pc = "resolved", !.canvasWidth = w, !.canvasHeight = h,
                      !.length = len,
                      !.encodes = Append(@, Encoding(w, h, FALLBACK_QUALITY, len))]
  /\ UNCHANGED <<wizard, render>>

\* the loop is left with a payload under the ceiling: resolve(base64Data)
\* (src/services/geminiService.ts:57, 66)
compressImage_resolve ==
  /\ canvas.pc = "loop"
  /\ ~LoopCondition
  /\ canvas.length <= MAX_PAYLOAD_SIZE_BYTES
  /\ canvas' = [canvas EXCEPT !.pc = "resolved"]
  /\ UNCHANGED <<wizard, render>>

\* ------------------------------------------------- prompts (api/templates)
\* A prompt is the sequence of the pieces of text the template literal joins:
\* each fixed text of the template is one piece (named below by what it
\* says), each interpolated value is one piece.  A text occurs in a prompt
\* when its pieces occur in it, in order and next to each other.
EXACT_MATCH == "Exact Match"
FACTORY_FRESH == "Factory Fresh"
FidelityModes == {EXACT_MATCH, CLEAN_BUILD, FACTORY_FRESH}

IsInfix(text, prompt) ==
  \E i \in 0..(Len(prompt) - Len(text)) : SubSeq(prompt, i + 1, i + Len(text)) = text

\* FIDELITY_PROMPTS (src/unnamed/part_002:747-751)
FIDELITY_PROMPTS ==
  [m \in FidelityModes |->
     CASE m = EXACT_MATCH ->
            <<"EXACT MATCH: Include ALL stickers, decals, mud, dirt, scratches.">>
       [] m = CLEAN_BUILD ->
            <<"CLEAN BUILD: Keep all mods/stickers but remove dirt and imperfections.">>
       [] m = FACTORY_FRESH ->
            <<"FACTORY FRESH: Remove all aftermarket mods. Pure stock OEM look.">>]

\* variant: whatever the mode, the clean-build instruction
FidelityPrompt_alwaysClean(mode) == FIDELITY_PROMPTS[CLEAN_BUILD]

\* FIDELITY_PROMPTS[fidelity] || FIDELITY_PROMPTS['Clean Build']
FidelityPrompt(mode) ==
  IF mode \in DOMAIN FIDELITY_PROMPTS
    THEN FIDELITY_PROMPTS[mode]
    ELSE FIDELITY_PROMPTS[CLEAN_BUILD]

\* the text around the wheel of the lowered stance
LOWERED_HEAD == "Lower 1-2 inches, sportier stance. Add "
LOWERED_TAIL == " with low profile tires."

\* the wheel names the analysis may suggest
WheelNames == {"Method 305", "BBS RS"}

\* STANCE_PROMPTS (src/unnamed/part_002:740-745)
STANCE_PROMPTS ==
  [s \in StanceStyles |->
     CASE s = STOCK ->
            <<"Keep EXACT wheel design, tire size, and suspension height from source.">>
       [] s = LIFTED ->
            <<"Add 2-3 inch lift with aggressive AT tires. Increase tire sidewall.">>
       [] s = STEELIES ->
            <<"Black steel wheels (steelies) with 33-inch mud-terrain tires. 2-inch lift.">>
       [] s = LOWERED -> <<LOWERED_HEAD, "aftermarket wheels", LOWERED_TAIL>>]

\* variant: the wheel the analysis suggests is not used
StancePrompt_fixed(style, popularWheelName) ==
  IF style \in DOMAIN STANCE_PROMPTS THEN STANCE_PROMPTS[style]
                                      ELSE STANCE_PROMPTS[STOCK]

\* src/unnamed/part_002:772-776
StancePrompt(style, popularWheelName) ==
  IF style = LOWERED /\ popularWheelName # Undefined
    THEN <<LOWERED_HEAD, popularWheelName, LOWERED_TAIL>>
    ELSE IF style \in DOMAIN STANCE_PROMPTS THEN STANCE_PROMPTS[style]
                                             ELSE STANCE_PROMPTS[STOCK]

\* analysis.popularWheels?.[0]?.name (src/api/generate-remaining.ts:70)
PopularWheelName(an) ==
  IF an.popularWheels = Null \/ Val(an.popularWheels) = <<>>
    THEN Undefined
    ELSE Val(an.popularWheels)[1].name

\* the analysis as far as buildBasePrompt reads it here: the popularWheels
\* property is absent (Null), or a list of none, one or two wheels
PromptAnalysis ==
  {[make |-> MAKE, popularWheels |-> w] :
     w \in {Null, Some(<<>>)}
             \cup {Some(<<[name |-> n]>>) : n \in WheelNames}
             \cup {Some(<<[name |-> n], [name |-> m]>>) : n, m \in WheelNames}}

STANCE_LABEL == "**STANCE:** "
SCENE_LABEL == "**SCENE:** "

\* BACKGROUND_PROMPTS[background] || BACKGROUND_PROMPTS['Mountain Peaks']
\* (src/unnamed/part_002:728-738, 810)
BackgroundPrompt(bg) ==
  IF bg = FOREST
    THEN "Nordic pine silhouettes in layered forest greens. Dark earth clearing foreground."
    ELSE "Geometric mountain silhouettes with large minimalist Sun circle. Rocky gravel ground."

\* buildBasePrompt (src/unnamed/part_002:764-849)
buildBasePrompt(params) ==
  <<"**VEHICLE:** ", params.analysis.make,
    "**POSITION:** ",
    IF params.position = AS_PHOTOGRAPHED
      THEN "Keep the EXACT same angle and perspective as the source photo."
      ELSE "Convert to a CLEAN SIDE PROFILE view (90-degree lateral).",
    "**CONDITION:** ">>
    \o FidelityPrompt(params.fidelity)
    \o <<STANCE_LABEL>>
    \o StancePrompt(params.stance, params.popularWheelName)
    \o <<SCENE_LABEL, BackgroundPrompt(params.background)>>
    \o (IF params.selectedMods # <<>>
          THEN <<"ADD VIRTUAL MODS: ">> \o params.selectedMods ELSE <<>>)
    \o <<"CRITICAL: 100% FAITHFUL REPRODUCTION ...",
         "**STYLE:** High-Fidelity Technical Vector Art. ...">>

\* FORMAT_CONFIGS (src/unnamed/part_002:862-919)
FORMAT_CONFIGS ==
  [f \in {"phone", "desktop", "print"} |->
     CASE f = "phone" ->
            [aspectRatio |-> "9:19.5",
             orientation |-> "VERTICAL/PORTRAIT (9:19.5, extra tall for modern phones)",
             composition |-> "PHONE WALLPAPER COMPOSITION ...",
             resolution |-> "1080x2340 (Modern smartphone - iPhone/Android)"]
       [] f = "desktop" ->
            [aspectRatio |-> "16:9",
             orientation |-> "HORIZONTAL/LANDSCAPE (16:9, wider than tall)",
             composition |-> "DESKTOP WALLPAPER COMPOSITION ...",
             resolution |-> "3840x2160 (4K UHD - Ultra HD quality)"]
       [] f = "print" ->
            [aspectRatio |-> "4:3",
             orientation |-> "HORIZONTAL/LANDSCAPE (4:3, classic photo ratio)",
             composition |-> "PRINT COMPOSITION ...",
             resolution |-> "4096x3072 (4K print quality - suitable for large format printing)"]]

STYLE_REFERENCE_NOTE ==
  "**IMPORTANT:** This artwork will be used as the STYLE REFERENCE for other aspect ratios. ..."
OUTPUT_FIRST_HEAD == "**OUTPUT:** Generate a high-quality "
OUTPUT_FIRST_TAIL == " vector art wallpaper."
MATCH_REFERENCE == "**CRITICAL: MATCH THE STYLE OF THE REFERENCE ART EXACTLY** ..."
SAME_ARTWORK_HEAD == "Your task: Create the SAME artwork but in "
SAME_ARTWORK_TAIL == " aspect ratio."
KEEP_PROPORTIONS ==
  "VEHICLE PROPORTIONS - DO NOT DISTORT ... The vehicle in your output MUST have the EXACT SAME PROPORTIONS as in the reference art. ..."

\* buildFirstGenerationPrompt (src/unnamed/part_002:921-937)
buildFirstGenerationPrompt(basePrompt, format) ==
  LET config == FORMAT_CONFIGS[format]
  IN <<"**FORMAT:** ", config.orientation, "**RESOLUTION:** ", config.resolution,
       config.composition>>
       \o basePrompt
       \o <<STYLE_REFERENCE_NOTE, OUTPUT_FIRST_HEAD, config.aspectRatio,
            OUTPUT_FIRST_TAIL>>

\* variant: the follow-up prompt without the block on the vehicle's proportions
buildFollowUpGenerationPrompt_noProportions(basePrompt, format) ==
  LET config == FORMAT_CONFIGS[format]
  IN <<MATCH_REFERENCE, SAME_ARTWORK_HEAD, config.aspectRatio, SAME_ARTWORK_TAIL,
       "STYLE MATCHING REQUIREMENTS: ...", "**FORMAT:** ", config.orientation,
       "**RESOLUTION:** ", config.resolution, config.composition>>
       \o basePrompt
       \o <<"**OUTPUT:** Generate a ", config.aspectRatio, " image with the vehicle having IDENTICAL proportions to the reference. Extend the BACKGROUND to fill the new aspect ratio, NOT the car.">>

\* buildFollowUpGenerationPrompt (src/unnamed/part_002:939-989)
buildFollowUpGenerationPrompt(basePrompt, format) ==
  LET config == FORMAT_CONFIGS[format]
  IN <<MATCH_REFERENCE, SAME_ARTWORK_HEAD, config.aspectRatio, SAME_ARTWORK_TAIL,
       KEEP_PROPORTIONS, "STYLE MATCHING REQUIREMENTS: ...", "**FORMAT:** ", config.orientation,
       "**RESOLUTION:** ", config.resolution, config.composition>>
       \o basePrompt
       \o <<"**OUTPUT:** Generate a ", config.aspectRatio, " image with the vehicle having IDENTICAL proportions to the reference. Extend the BACKGROUND to fill the new aspect ratio, NOT the car.">>

\* the endpoint, its request body, where the handler stands, the model calls
\* it has made (format and parts of each) and the status it answered
Render(endpoint, body) ==
  [endpoint |-> endpoint, body |-> body, pc |-> "received", calls |-> <<>>,
   status |-> 0]
NoRender == [endpoint |-> "none", pc |-> "idle"]

\* ----------------------------------------------------------------- Init
\* A record written by handlePurchase of the previous release
\* (src/unnamed/part_001:183): no selectedMods, no previewArt.
LegacyRecord ==
  [imageBase64 |-> 1,
   analysis |-> Some([photo |-> 1, isOffroad |-> FALSE, make |-> MAKE]),
   background |-> MOUNTAINS, fidelity |-> CLEAN_BUILD,
   position |-> AS_PHOTOGRAPHED, stance |-> STOCK]

InitialMemory ==
  /\ imageBase64 = 0
  /\ step = UPLOAD
  /\ background = MOUNTAINS
  /\ position = SIDE_PROFILE
  /\ fidelity = CLEAN_BUILD
  /\ stance = STOCK
  /\ selectedMods = <<>>
  /\ analysis = Null
  /\ previewArt = 0
  /\ artSet = Null
  /\ hasPaid = FALSE
  /\ isProcessingPayment = FALSE

\* First visit (nothing stored), or the browser of a user who went to the
\* checkout page from the previous release and comes back to this one.
WizardInit ==
  /\ InitialMemory
  /\ revealTimer = FALSE
  /\ customizeTimers = 0
  /\ tasks = EmptyBag
  /\ last = NoRun
  /\ sent = Null
  /\ \/ /\ page = "app"
        /\ checkoutSession = 0
        /\ url \in {NoParams, DevUrl}
        /\ localStorage = Null
        /\ created = 0
     \/ /\ page = "checkout"
        /\ checkoutSession = 1
        /\ url = NoParams
        /\ localStorage = Some(LegacyRecord)
        /\ created = 1
  /\ paid = {}

\* the wizard on its own: the record ledger is not kept
Init ==
  /\ WizardInit
  /\ render = NoRender
  /\ canvas = NoCanvas
  /\ slots = MaxInFlight
  /\ runsStarted = 0
  /\ recordSession = 0

\* ----------------------------------------------------------------- JSON
\* JSON.stringify drops a property whose value is undefined; reading a
\* property that is not there yields undefined.
AnalysisToJSON(an) ==
  IF an = Null THEN Null
  ELSE LET a == Val(an)
           core == [photo |-> a.photo, isOffroad |-> a.isOffroad]
           bg == [suggestedBackground |-> a.suggestedBackground]
           mk == [make |-> a.make]
       IN Some(CASE a.suggestedBackground = Undefined /\ a.make = Undefined -> core
                 [] a.suggestedBackground = Undefined /\ a.make # Undefined -> core @@ mk
                 [] a.suggestedBackground # Undefined /\ a.make = Undefined -> core @@ bg
                 [] OTHER -> a)
AnalysisFromJSON(j) ==
  IF j = Null THEN Null
  ELSE Some([photo |-> Val(j).photo, isOffroad |-> Val(j).isOffroad,
             suggestedBackground |->
               IF "suggestedBackground" \in DOMAIN Val(j)
                 THEN Val(j).suggestedBackground ELSE Undefined,
             make |-> IF "make" \in DOMAIN Val(j) THEN Val(j).make ELSE Undefined])

\* the object handlePurchase serialises (src/App.tsx:225-228)
PendingRecord ==
  [imageBase64 |-> imageBase64, analysis |-> AnalysisToJSON(analysis),
   background |-> background, fidelity |-> fidelity, position |-> position,
   stance |-> stance, selectedMods |-> selectedMods, previewArt |-> previewArt]

\* JSON.parse(savedState) as handlePaymentReturn reads it (src/App.tsx:119-141):
\* state.selectedMods || [] and an absent previewArt (undefined, falsy).
ParseState(js) ==
  [imageBase64 |-> js.imageBase64, analysis |-> AnalysisFromJSON(js.analysis),
   background |-> js.background, fidelity |-> js.fidelity,
   position |-> js.position, stance |-> js.stance,
   selectedMods |-> IF "selectedMods" \in DOMAIN js THEN js.selectedMods ELSE <<>>,
   previewArt |-> IF "previewArt" \in DOMAIN js THEN js.previewArt ELSE 0]

\* ------------------------------------------------------------ page load
\* A (re)load of the SPA at URL u: memory is the useState defaults, the calls
\* of the previous page are abandoned, and the mount effect
\* (src/App.tsx:69-76) runs: handlePaymentReturn up to its first await
\* (src/App.tsx:107-113), or the cancel branch.
clearPaymentParams == NoParams

PageLoad(u) ==
  /\ page' = "app"
  /\ checkoutSession' = 0
  /\ imageBase64' = 0
  /\ background' = MOUNTAINS
  /\ position' = SIDE_PROFILE
  /\ fidelity' = CLEAN_BUILD
  /\ stance' = STOCK
  /\ selectedMods' = <<>>
  /\ analysis' = Null
  /\ previewArt' = 0
  /\ artSet' = Null
  /\ hasPaid' = FALSE
  /\ revealTimer' = FALSE
  /\ customizeTimers' = 0
  /\ UNCHANGED localStorage
  /\ IF u.session_id # 0
       THEN /\ url' = u
            /\ isProcessingPayment' = TRUE
            /\ step' = GENERATING
            /\ tasks' = SetToBag({Task("handlePaymentReturn", "verify",
                                       <<"verify-payment">>, Null, 0, 0,
                                       u.session_id)})
            /\ last' = Finished("mount", "return", <<>>, "")
       ELSE IF u.cancelled
         THEN /\ url' = clearPaymentParams
              /\ isProcessingPayment' = FALSE
              /\ step' = PREVIEW
              /\ tasks' = EmptyBag
              /\ last' = Finished("mount", "cancelled", <<>>, "")
         ELSE /\ url' = u
              /\ isProcessingPayment' = FALSE
              /\ step' = UPLOAD
              /\ tasks' = EmptyBag
              /\ last' = Finished("mount", "plain", <<>>, "")
  /\ sent' = Null

\* the user opens a URL of the app (address bar, bookmark, back button)
Navigate ==
  /\ \E u \in UserUrls : u # url /\ PageLoad(u)
  /\ UNCHANGED provider

\* the user reloads the page
Reload ==
  /\ page = "app"
  /\ PageLoad(url)
  /\ UNCHANGED provider

\* hosted checkout page: the user pays and the provider redirects to success_url
\* (src/api/create-checkout-session.ts:57)
CheckoutPay ==
  /\ page = "checkout"
  /\ paid' = paid \cup {checkoutSession}
  /\ UNCHANGED created
  /\ PageLoad(SuccessUrl(checkoutSession))

\* hosted checkout page: the user cancels and the provider redirects to cancel_url
\* (src/api/create-checkout-session.ts:58)
CheckoutCancel ==
  /\ page = "checkout"
  /\ UNCHANGED provider
  /\ PageLoad(CancelUrl)

\* ------------------------------------------------------- upload, analyze
\* handleFile up to `await fileToGenerativePart` (src/App.tsx:178-180)
handleFile ==
  /\ page = "app"
  /\ step = UPLOAD
  /\ CanSpawn
  /\ \E f \in Photos :
       tasks' = Spawn(Task("handleFile", "decode", <<>>, Null, 0, 0, f))
  /\ UNCHANGED <<browser, localStorage, provider, memory, timers>>
  /\ last' = NoRun
  /\ sent' = Null

\* what ai.models.generateContent does for the photo (src/api/analyze-vehicle.ts:52-66):
\* it throws, or returns text that is not JSON, or JSON that lacks a required
\* field, or a complete analysis
ModelAnswers(photo) ==
  {[kind |-> "modelError", data |-> Null], [kind |-> "invalidJSON", data |-> Null]}
    \cup {[kind |-> "incomplete", data |-> Some(a)] :
            a \in {b \in IncompleteAnalysis : b.photo = photo}}
    \cup {[kind |-> "complete", data |-> Some(a)] :
            a \in {b \in VehicleAnalysis : b.photo = photo}}

\* POST /api/analyze-vehicle (src/api/analyze-vehicle.ts:36-85): a throw of
\* the model call or of JSON.parse is caught and answered 500; whatever
\* JSON.parse returns is sent back with 200
AnalyzeVehicleHandler(answer) ==
  IF answer.kind \in {"modelError", "invalidJSON"}
    THEN [status |-> 500, data |-> CHOOSE a \in VehicleAnalysis : TRUE]
    ELSE [status |-> 200, data |-> Val(answer.data)]

\* fileToGenerativePart resolved: src/App.tsx:181-190 up to `await analyzeVehicle`
handleFile_decoded(t) ==
  /\ t.kind = "decode"
  /\ imageBase64' = t.arg
  /\ previewArt' = 0
  /\ artSet' = Null
  /\ hasPaid' = FALSE
  /\ selectedMods' = <<>>
  /\ step' = ANALYZING
  /\ revealTimer' = RevealEffect(ANALYZING, analysis, FALSE)
  /\ tasks' = Become(t, [t EXCEPT !.kind = "analyze",
                                  !.log = <<"analyze-vehicle">>])
  /\ UNCHANGED <<browser, localStorage, provider, background, position, fidelity,
                 stance, analysis, isProcessingPayment, customizeTimers>>
  /\ last' = NoRun
  /\ sent' = Null

\* fileToGenerativePart rejected (img.onerror, src/services/geminiService.ts:69):
\* the await is outside the try of handleFile, nothing else runs
handleFile_decodeFailed(t) ==
  /\ t.kind = "decode"
  /\ tasks' = Drop(t)
  /\ last' = FinishedTask(t, "decodeFailed", "")
  /\ UNCHANGED <<browser, localStorage, provider, memory, timers>>
  /\ sent' = Null

\* analyzeVehicle resolved: setAnalysis(res) (src/App.tsx:190-191), then the
\* effects of the update
handleFile_analyzed(t) ==
  /\ t.kind = "analyze"
  /\ \E answer \in ModelAnswers(t.arg) :
       LET response == AnalyzeVehicleHandler(answer)
           res == response.data
       IN /\ response.status = 200
          /\ analysis' = Some(res)
          /\ background' = SuggestionEffect(Some(res), background)
          /\ revealTimer' = RevealEffect(step, Some(res), TRUE)
          /\ last' = [FinishedTask(t, "ok", "") EXCEPT !.cause = answer.kind]
  /\ tasks' = Drop(t)
  /\ UNCHANGED <<browser, localStorage, provider, imageBase64, step, position,
                 fidelity, stance, selectedMods, previewArt, artSet, hasPaid,
                 isProcessingPayment, customizeTimers>>
  /\ sent' = Null

\* analyzeVehicle threw (src/App.tsx:193-197): the endpoint answered with an
\* error status (src/services/geminiService.ts:120-122)
handleFile_analyzeFailed(t) ==
  /\ t.kind = "analyze"
  /\ step' = UPLOAD
  /\ revealTimer' = RevealEffect(UPLOAD, analysis, FALSE)
  /\ tasks' = Drop(t)
  /\ \E answer \in ModelAnswers(t.arg) :
       /\ AnalyzeVehicleHandler(answer).status # 200
       /\ last' = [FinishedTask(t, "fail",
                       "Couldn't analyze that image. Try a clearer photo.")
                     EXCEPT !.cause = answer.kind]
  /\ UNCHANGED <<browser, localStorage, provider, imageBase64, background,
                 position, fidelity, stance, selectedMods, analysis, previewArt,
                 artSet, hasPaid, isProcessingPayment, customizeTimers>>
  /\ sent' = Null

\* the 2300 ms timer of the reveal fires: it starts the inner 600 ms timer,
\* which no cleanup clears (src/App.tsx:97-101)
RevealTimerFires ==
  /\ revealTimer
  /\ customizeTimers < MaxTimers
  /\ revealTimer' = FALSE
  /\ customizeTimers' = customizeTimers + 1
  /\ UNCHANGED <<browser, localStorage, provider, memory, tasks>>
  /\ last' = NoRun
  /\ sent' = Null

\* setTimeout(() => setStep(Step.CUSTOMIZE), 600) fires (src/App.tsx:100)
CustomizeTimerFires ==
  /\ customizeTimers > 0
  /\ customizeTimers' = customizeTimers - 1
  /\ step' = CUSTOMIZE
  /\ revealTimer' = RevealEffect(CUSTOMIZE, analysis, FALSE)
  /\ UNCHANGED <<browser, localStorage, provider, imageBase64, background,
                 position, fidelity, stance, selectedMods, analysis, previewArt,
                 artSet, hasPaid, isProcessingPayment, tasks>>
  /\ last' = NoRun
  /\ sent' = Null

\* ------------------------------------------------------------ customize
\* the option buttons of the CUSTOMIZE view (src/App.tsx:479, 557, 624-627);
\* position, fidelity and the dream mods are left as they are
CustomizeShown == page = "app" /\ step = CUSTOMIZE /\ analysis # Null

setBackground ==
  /\ CustomizeShown
  /\ \E b \in Backgrounds : b # background /\ background' = b
  /\ UNCHANGED <<browser, localStorage, provider, imageBase64, step, position,
                 fidelity, stance, selectedMods, analysis, previewArt, artSet,
                 hasPaid, isProcessingPayment, timers, tasks>>
  /\ last' = NoRun
  /\ sent' = Null

\* src/App.tsx:624-627: one button per option of getStanceOptions()
setStance ==
  /\ CustomizeShown
  /\ \E o \in Range(getStanceOptions(analysis)) : o # stance /\ stance' = o
  /\ UNCHANGED <<browser, localStorage, provider, imageBase64, step, background,
                 position, fidelity, selectedMods, analysis, previewArt, artSet,
                 hasPaid, isProcessingPayment, timers, tasks>>
  /\ last' = NoRun
  /\ sent' = Null

\* src/App.tsx:334-345, offered by the header whenever step !== UPLOAD and by
\* the COMPLETE view
startNew ==
  /\ page = "app"
  /\ step # UPLOAD
  /\ imageBase64' = 0
  /\ previewArt' = 0
  /\ artSet' = Null
  /\ analysis' = Null
  /\ hasPaid' = FALSE
  /\ selectedMods' = <<>>
  /\ step' = UPLOAD
  /\ revealTimer' = FALSE
  /\ tasks' = AllAbandoned
  /\ UNCHANGED <<browser, localStorage, provider, background, position, fidelity,
                 stance, isProcessingPayment, customizeTimers>>
  /\ last' = NoRun
  /\ sent' = Null

\* ------------------------------------------------------- render requests
\* The serverless handlers check the body before any model call
\* (src/api/verify-payment.ts:103-105, src/api/generate-remaining.ts:54-56).
GenerateArtBodyOk(req) == req.image # 0 /\ req.analysis # Null

\* variant: the reference image is not among the required fields
GenerateRemainingBodyOk_noPreviewArt(req) ==
  req.image # 0 /\ req.analysis # Null
GenerateRemainingBodyOk(req) ==
  req.image # 0 /\ req.previewArt # 0 /\ req.analysis # Null

\* generateArt: POST /api/generate-art; the handler issues the phone render
\* unless it answers 400
IssueGenerateArt(t, req) ==
  [t EXCEPT !.ref = 0,
            !.kind = IF GenerateArtBodyOk(req) THEN "phone" ELSE "badRequest",
            !.log = IF GenerateArtBodyOk(req)
                      THEN t.log \o <<"generate-art", "model:phone">>
                      ELSE Append(t.log, "generate-art")]

\* variant of the endpoint that starts the desktop and the print render together
IssueGenerateRemaining_bothAtOnce(t, req) ==
  [t EXCEPT !.ref = req.previewArt,
            !.kind = IF GenerateRemainingBodyOk(req) THEN "desktop" ELSE "badRequest",
            !.log = IF GenerateRemainingBodyOk(req)
                      THEN t.log \o <<"generate-remaining", "model:desktop",
                                      "model:print">>
                      ELSE Append(t.log, "generate-remaining")]

\* generateRemainingFormats: POST /api/generate-remaining; the handler issues
\* the desktop render first unless it answers 400
IssueGenerateRemaining(t, req) ==
  [t EXCEPT !.ref = req.previewArt,
            !.kind = IF GenerateRemainingBodyOk(req) THEN "desktop" ELSE "badRequest",
            !.log = IF GenerateRemainingBodyOk(req)
                      THEN t.log \o <<"generate-remaining", "model:desktop">>
                      ELSE Append(t.log, "generate-remaining")]

\* ------------------------------------------------------------- preview
\* handleGenerate up to `await generateArt` (src/App.tsx:201-210)
handleGenerate ==
  /\ CustomizeShown
  /\ imageBase64 # 0 /\ analysis # Null
  /\ CanSpawn
  /\ step' = GENERATING
  /\ revealTimer' = RevealEffect(GENERATING, analysis, FALSE)
  /\ LET req == RenderRequest(imageBase64, 0, analysis, background, fidelity,
                              position, stance, selectedMods)
     IN /\ tasks' = Spawn(IssueGenerateArt(
                  Task("handleGenerate", "new", <<>>, Null, 0, 0, 0), req))
        /\ sent' = Some(req)
  /\ UNCHANGED <<browser, localStorage, provider, imageBase64, background,
                 position, fidelity, stance, selectedMods, analysis, previewArt,
                 artSet, hasPaid, isProcessingPayment, customizeTimers>>
  /\ last' = NoRun

\* generateArt resolved (src/App.tsx:211-212)
handleGenerate_done(t) ==
  /\ t.owner = "handleGenerate" /\ t.kind = "phone"
  /\ \E art \in Images : previewArt' = art
  /\ step' = PREVIEW
  /\ revealTimer' = RevealEffect(PREVIEW, analysis, FALSE)
  /\ tasks' = Drop(t)
  /\ last' = FinishedTask(t, "ok", "")
  /\ UNCHANGED <<browser, localStorage, provider, imageBase64, background,
                 position, fidelity, stance, selectedMods, analysis, artSet,
                 hasPaid, isProcessingPayment, customizeTimers>>
  /\ sent' = Null

\* variant: the failed render is issued again instead of being reported
handleGenerate_failed_retry(t) ==
  /\ t.owner = "handleGenerate" /\ t.kind \in {"phone", "badRequest"}
  /\ LET req == RenderRequest(imageBase64, 0, analysis, background, fidelity,
                              position, stance, selectedMods)
     IN /\ tasks' = Become(t, IssueGenerateArt(t, req))
        /\ sent' = Some(req)
  /\ UNCHANGED <<browser, localStorage, provider, memory, timers>>
  /\ last' = NoRun

\* generateArt threw (src/App.tsx:213-217)
handleGenerate_failed(t) ==
  /\ t.owner = "handleGenerate" /\ t.kind \in {"phone", "badRequest"}
  /\ step' = CUSTOMIZE
  /\ revealTimer' = RevealEffect(CUSTOMIZE, analysis, FALSE)
  /\ tasks' = Drop(t)
  /\ last' = FinishedTask(t, "fail", "Generation failed. Please try again.")
  /\ UNCHANGED <<browser, localStorage, provider, imageBase64, background,
                 position, fidelity, stance, selectedMods, analysis, previewArt,
                 artSet, hasPaid, isProcessingPayment, customizeTimers>>
  /\ sent' = Null

\* the PREVIEW view (src/App.tsx:709)
PreviewShown == page = "app" /\ step = PREVIEW /\ previewArt # 0 /\ ~hasPaid

\* "Try different settings" (src/App.tsx:789)
adjustSettings ==
  /\ PreviewShown
  /\ previewArt' = 0
  /\ step' = CUSTOMIZE
  /\ revealTimer' = RevealEffect(CUSTOMIZE, analysis, FALSE)
  /\ UNCHANGED <<browser, localStorage, provider, imageBase64, background,
                 position, fidelity, stance, selectedMods, analysis, artSet,
                 hasPaid, isProcessingPayment, customizeTimers, tasks>>
  /\ last' = NoRun
  /\ sent' = Null

\* ------------------------------------------------------------- checkout
\* handlePurchase up to `await redirectToCheckout` (src/App.tsx:220-233):
\* the record is written, then the checkout session is requested
handlePurchase ==
  /\ PreviewShown
  /\ ~isProcessingPayment
  /\ imageBase64 # 0 /\ analysis # Null /\ previewArt # 0
  /\ CanSpawn
  /\ isProcessingPayment' = TRUE
  /\ localStorage' = Some(PendingRecord)
  /\ tasks' = Spawn(Task("handlePurchase", "checkout",
                         <<"create-checkout-session">>, Null, 0, 0, 0))
  /\ UNCHANGED <<browser, provider, imageBase64, step, background, position,
                 fidelity, stance, selectedMods, analysis, previewArt, artSet,
                 hasPaid, timers>>
  /\ last' = NoRun
  /\ sent' = Null

\* localStorage.setItem threw (quota): src/App.tsx:234-238
handlePurchase_storageFailed ==
  /\ PreviewShown
  /\ ~isProcessingPayment
  /\ imageBase64 # 0 /\ analysis # Null /\ previewArt # 0
  /\ last' = Finished("handlePurchase", "fail", <<>>,
                      "Checkout failed. Please try again.")
  /\ UNCHANGED <<browser, localStorage, provider, memory, timers, tasks>>
  /\ sent' = Null

\* createCheckoutSession resolved: window.location.href = url
\* (src/api/generate-remaining.ts:187-193); the page is left
handlePurchase_redirect(t) ==
  /\ t.kind = "checkout"
  /\ created < MaxSessions
  /\ created' = created + 1
  /\ page' = "checkout"
  /\ checkoutSession' = created + 1
  /\ tasks' = EmptyBag
  /\ revealTimer' = FALSE
  /\ customizeTimers' = 0
  /\ last' = FinishedTask(t, "redirect", "")
  /\ imageBase64' = 0
  /\ step' = UPLOAD
  /\ background' = MOUNTAINS
  /\ position' = SIDE_PROFILE
  /\ fidelity' = CLEAN_BUILD
  /\ stance' = STOCK
  /\ selectedMods' = <<>>
  /\ analysis' = Null
  /\ previewArt' = 0
  /\ artSet' = Null
  /\ hasPaid' = FALSE
  /\ isProcessingPayment' = FALSE
  /\ UNCHANGED <<url, localStorage, paid>>
  /\ sent' = Null

\* createCheckoutSession threw (src/App.tsx:234-238)
handlePurchase_failed(t) ==
  /\ t.kind = "checkout"
  /\ isProcessingPayment' = FALSE
  /\ tasks' = Drop(t)
  /\ last' = FinishedTask(t, "fail", "Checkout failed. Please try again.")
  /\ UNCHANGED <<browser, localStorage, provider, imageBase64, step, background,
                 position, fidelity, stance, selectedMods, analysis, previewArt,
                 artSet, hasPaid, timers>>
  /\ sent' = Null

\* handleDevUnlock up to `await generateRemainingFormats` (src/App.tsx:242-260);
\* the button is rendered only with ?dev=1 (src/App.tsx:776-780)
handleDevUnlock ==
  /\ PreviewShown
  /\ isDevMode
  /\ ~isProcessingPayment
  /\ imageBase64 # 0 /\ analysis # Null /\ previewArt # 0
  /\ CanSpawn
  /\ isProcessingPayment' = TRUE
  /\ step' = GENERATING
  /\ revealTimer' = RevealEffect(GENERATING, analysis, FALSE)
  /\ LET req == RenderRequest(imageBase64, previewArt, analysis, background,
                              fidelity, position, stance, selectedMods)
     IN /\ tasks' = Spawn(IssueGenerateRemaining(
                  Task("handleDevUnlock", "new", <<>>, Null, 0, 0, 0), req))
        /\ sent' = Some(req)
  /\ UNCHANGED <<browser, localStorage, provider, imageBase64, background,
                 position, fidelity, stance, selectedMods, analysis, previewArt,
                 artSet, hasPaid, customizeTimers>>
  /\ last' = NoRun

\* ------------------------------------------------------- payment return
\* GET /api/verify-payment (src/api/verify-payment.ts:30-42): success is
\* payment_status === 'paid'; retrieving an unknown session throws (500)
SessionExists(s) == s \in 1..created
\* variant: any session the provider knows counts as paid
IsPaid_anySession(s) == s \in 1..created
IsPaid(s) == s \in paid

\* variant: the persisted preview is ignored
HasExistingPreview_never(state) == FALSE

\* `if (existingPreview)` (src/App.tsx:128-130)
HasExistingPreview(state) == state.previewArt # 0

\* verifyPayment resolved with success: src/App.tsx:114-159 up to the await of
\* the render call, with the effects of the restore
handlePaymentReturn_verified(t) ==
  /\ t.kind = "verify"
  /\ SessionExists(t.arg) /\ IsPaid(t.arg)
  /\ url' = clearPaymentParams
  /\ UNCHANGED <<page, checkoutSession, localStorage, provider, previewArt,
                 artSet, hasPaid, step, customizeTimers>>
  /\ IF localStorage # Null
       THEN LET state == ParseState(Val(localStorage))
                existingPreview == state.previewArt
                req == RenderRequest(state.imageBase64, existingPreview,
                                     state.analysis, state.background,
                                     state.fidelity, state.position,
                                     state.stance, state.selectedMods)
                t1 == [t EXCEPT !.st = Some(state)]
                t2 == IF HasExistingPreview(state)
                        THEN IssueGenerateRemaining(t1, req)
                        ELSE IssueGenerateArt(t1, req)
            IN /\ imageBase64' = state.imageBase64
               /\ analysis' = state.analysis
               /\ background' = SuggestionEffect(state.analysis, state.background)
               /\ position' = state.position
               /\ fidelity' = state.fidelity
               /\ stance' = state.stance
               /\ selectedMods' = state.selectedMods
               /\ revealTimer' = RevealEffect(step, state.analysis, TRUE)
               /\ isProcessingPayment' = isProcessingPayment
               /\ tasks' = Become(t, t2)
               /\ last' = FinishedTask(t2, "restored", "")
               /\ sent' = Some(req)
       ELSE /\ isProcessingPayment' = FALSE
            /\ tasks' = Drop(t)
            /\ last' = FinishedTask(t, "noRecord", "")
            /\ sent' = Null
            /\ UNCHANGED <<imageBase64, analysis, background, position, fidelity,
                           stance, selectedMods, revealTimer>>

\* the catch and the finally of handlePaymentReturn (src/App.tsx:169-175)
PaymentReturnCatch(t, result) ==
  /\ step' = PREVIEW
  /\ revealTimer' = RevealEffect(PREVIEW, analysis, FALSE)
  /\ isProcessingPayment' = FALSE
  /\ tasks' = Drop(t)
  /\ last' = FinishedTask(t, result,
                          "Payment verification failed. Please contact support.")
  /\ UNCHANGED <<page, checkoutSession, localStorage, provider, imageBase64,
                 background, position, fidelity, stance, selectedMods, analysis,
                 previewArt, artSet, hasPaid, customizeTimers>>
  /\ sent' = Null

\* verifyPayment resolved with success false: throw new Error('Payment not
\* verified') (src/App.tsx:166-168)
handlePaymentReturn_unverified(t) ==
  /\ t.kind = "verify"
  /\ SessionExists(t.arg) /\ ~IsPaid(t.arg)
  /\ url' = clearPaymentParams
  /\ PaymentReturnCatch(t, "unverified")

\* verifyPayment threw (network, or a 500 of the endpoint): the statement
\* after the await is skipped (src/App.tsx:113-114)
handlePaymentReturn_verifyFailed(t) ==
  /\ t.kind = "verify"
  /\ url' = url
  /\ PaymentReturnCatch(t, "verifyFailed")

\* ---------------------------------------------------------- paid render
\* generateArtSet, step 2 (src/services/geminiService.ts:247-255): the phone
\* render of the fallback resolved and is passed on as the reference
generateArtSet_phoneDone(t) ==
  /\ t.owner = "handlePaymentReturn" /\ t.kind = "phone"
  /\ \E phoneArt \in Images :
       LET state == Val(t.st)
           req == RenderRequest(state.imageBase64, phoneArt, state.analysis,
                                state.background, state.fidelity, state.position,
                                state.stance, state.selectedMods)
       IN /\ tasks' = Become(t, IssueGenerateRemaining(t, req))
          /\ sent' = Some(req)
  /\ UNCHANGED <<browser, localStorage, provider, memory, timers>>
  /\ last' = NoRun

\* generateWithReference('desktop') returned; the handler goes on to
\* generateWithReference('print') (src/api/generate-remaining.ts:97-101)
generateRemaining_desktopDone(t) ==
  /\ t.kind = "desktop"
  /\ \E desktopArt \in Images :
       tasks' = Become(t, [t EXCEPT !.kind = "print", !.desktop = desktopArt,
                                    !.log = Append(t.log, "model:print")])
  /\ UNCHANGED <<browser, localStorage, provider, memory, timers>>
  /\ last' = NoRun
  /\ sent' = Null

\* variant: the phone field is not the reference that was passed in
RemainingResult_otherPhone(t, printArt) ==
  [phone |-> t.desktop, desktop |-> t.desktop, print |-> printArt]

\* variant: the response carries no print image
RemainingResult_noPrint(t, printArt) ==
  [phone |-> t.ref, desktop |-> t.desktop, print |-> 0]

\* the response of /api/generate-remaining (src/api/generate-remaining.ts:103-110)
\* as generateRemainingFormats returns it (src/services/geminiService.ts:224-227)
RemainingResult(t, printArt) ==
  [phone |-> t.ref, desktop |-> t.desktop, print |-> printArt]

\* generateRemainingFormats / generateArtSet resolved in handlePaymentReturn
\* (src/App.tsx:144-164, 173-175)
handlePaymentReturn_done(t) ==
  /\ t.owner = "handlePaymentReturn" /\ t.kind = "print"
  /\ \E printArt \in Images : artSet' = Some(RemainingResult(t, printArt))
  /\ previewArt' = Val(t.st).previewArt
  /\ hasPaid' = TRUE
  /\ step' = COMPLETE
  /\ revealTimer' = RevealEffect(COMPLETE, analysis, FALSE)
  /\ localStorage' = Null
  /\ isProcessingPayment' = FALSE
  /\ tasks' = Drop(t)
  /\ last' = FinishedTask(t, "ok", "")
  /\ UNCHANGED <<browser, provider, imageBase64, background, position, fidelity,
                 stance, selectedMods, analysis, customizeTimers>>
  /\ sent' = Null

\* a call of the paid render threw in handlePaymentReturn (src/App.tsx:169-175)
handlePaymentReturn_renderFailed(t) ==
  /\ t.owner = "handlePaymentReturn"
  /\ t.kind \in {"phone", "desktop", "print", "badRequest"}
  /\ url' = url
  /\ PaymentReturnCatch(t, "renderFailed")

\* generateRemainingFormats resolved in handleDevUnlock (src/App.tsx:261-270)
handleDevUnlock_done(t) ==
  /\ t.owner = "handleDevUnlock" /\ t.kind = "print"
  /\ \E printArt \in Images : artSet' = Some(RemainingResult(t, printArt))
  /\ hasPaid' = TRUE
  /\ step' = COMPLETE
  /\ revealTimer' = RevealEffect(COMPLETE, analysis, FALSE)
  /\ isProcessingPayment' = FALSE
  /\ tasks' = Drop(t)
  /\ last' = FinishedTask(t, "ok", "")
  /\ UNCHANGED <<browser, localStorage, provider, imageBase64, background,
                 position, fidelity, stance, selectedMods, analysis, previewArt,
                 customizeTimers>>
  /\ sent' = Null

\* generateRemainingFormats threw in handleDevUnlock (src/App.tsx:264-270)
handleDevUnlock_failed(t) ==
  /\ t.owner = "handleDevUnlock"
  /\ t.kind \in {"desktop", "print", "badRequest"}
  /\ step' = PREVIEW
  /\ revealTimer' = RevealEffect(PREVIEW, analysis, FALSE)
  /\ isProcessingPayment' = FALSE
  /\ tasks' = Drop(t)
  /\ last' = FinishedTask(t, "fail", "Generation failed.")
  /\ UNCHANGED <<browser, localStorage, provider, imageBase64, background,
                 position, fidelity, stance, selectedMods, analysis, previewArt,
                 artSet, hasPaid, customizeTimers>>
  /\ sent' = Null

\* ------------------------------------------------ the endpoint on its own
\* POST /api/generate-remaining from any client.  The endpoint is public and
\* keeps no state: a direct request is sent next to the freshly loaded app.
DirectBodies ==
  {RenderRequest(img, prev, an, MOUNTAINS, CLEAN_BUILD, SIDE_PROFILE, STOCK, <<>>) :
     img \in {0, 1}, prev \in {0, 1},
     an \in {Null, Some([photo |-> 1, isOffroad |-> FALSE,
                         suggestedBackground |-> Undefined, make |-> MAKE])}}

directRequest ==
  /\ page = "app" /\ InitialMemory /\ localStorage = Null
  /\ customizeTimers = 0
  /\ tasks = EmptyBag
  /\ \E body \in DirectBodies :
       /\ tasks' = SetToBag({IssueGenerateRemaining(
                               Task("direct", "new", <<>>, Null, 0, 0, 0), body)})
       /\ sent' = Some(body)
  /\ UNCHANGED <<browser, localStorage, provider, memory, timers>>
  /\ last' = NoRun

\* the endpoint answered the direct request: 200 with the set, or an error
directRequest_answered(t) ==
  /\ t.owner = "direct"
  /\ t.kind \in {"desktop", "print", "badRequest"}
  /\ tasks' = Drop(t)
  /\ \/ /\ t.kind = "print"
        /\ last' = FinishedTask(t, "ok", "")
     \/ /\ last' = FinishedTask(t, IF t.kind = "badRequest" THEN "400"
                                                             ELSE "500", "")
  /\ UNCHANGED <<browser, localStorage, provider, memory, timers>>
  /\ sent' = Null

\* ------------------------------------------------- the render endpoints
\* One request to /api/generate-art or /api/generate-remaining, from the
\* check of the body to the response.  A photo is 1 and a rendered image is 2
\* here, 0 is a missing field.
REQUEST_PHOTO == 1
REQUEST_PREVIEW == 2

\* req.body; a field the client left out is Undefined (0 for an image)
RenderBodies ==
  [image : {0, REQUEST_PHOTO}, previewArt : {0, REQUEST_PREVIEW},
   analysis : {Null} \cup {Some(a) : a \in PromptAnalysis},
   background : {MOUNTAINS}, fidelity : FidelityModes \cup {Undefined},
   position : {AS_PHOTOGRAPHED}, stance : StanceStyles \cup {Undefined},
   selectedMods : {<<>>, <<"Snorkel">>}]

\* the parameter object both handlers build (src/api/verify-payment.ts:110-120,
\* src/api/generate-remaining.ts:61-71)
BasePromptParams(body) ==
  [analysis |-> Val(body.analysis),
   background |-> IF body.background = Undefined THEN MOUNTAINS ELSE body.background,
   fidelity |-> IF body.fidelity = Undefined THEN CLEAN_BUILD ELSE body.fidelity,
   position |-> IF body.position = Undefined THEN AS_PHOTOGRAPHED ELSE body.position,
   stance |-> IF body.stance = Undefined THEN STOCK ELSE body.stance,
   selectedMods |-> body.selectedMods,
   popularWheelName |-> PopularWheelName(Val(body.analysis))]

InlineData(data) == [inlineData |-> data, text |-> <<>>]
TextPart(prompt) == [inlineData |-> 0, text |-> prompt]

\* contents.parts of the preview render (src/api/verify-payment.ts:125-134)
GenerateArtParts(body) ==
  <<InlineData(body.image),
    TextPart(buildFirstGenerationPrompt(buildBasePrompt(BasePromptParams(body)),
                                        "phone"))>>

\* contents.parts of generateWithReference (src/api/generate-remaining.ts:74-87)
GenerateWithReferenceParts(body, format) ==
  <<InlineData(body.previewArt), InlineData(body.image),
    TextPart(buildFollowUpGenerationPrompt(buildBasePrompt(BasePromptParams(body)),
                                           format))>>

\* POST /api/generate-art up to the await of the model call
\* (src/api/verify-payment.ts:91-134)
generateArtHandler ==
  /\ render.pc = "received"
  /\ render.endpoint = "generate-art"
  /\ IF GenerateArtBodyOk(render.body)
       THEN render' = [render EXCEPT
                         !.pc = "phone",
                         !.calls = <<[format |-> "phone",
                                      parts |-> GenerateArtParts(render.body)]>>]
       ELSE render' = [render EXCEPT !.pc = "answered", !.status = 400]
  /\ UNCHANGED <<wizard, canvas>>

\* POST /api/generate-remaining up to the await of the desktop render
\* (src/api/generate-remaining.ts:41-98)
generateRemainingHandler ==
  /\ render.pc = "received"
  /\ render.endpoint = "generate-remaining"
  /\ IF GenerateRemainingBodyOk(render.body)
       THEN render' = [render EXCEPT
                         !.pc = "desktop",
                         !.calls = <<[format |-> "desktop",
                                      parts |-> GenerateWithReferenceParts(
                                                  render.body, "desktop")]>>]
       ELSE render' = [render EXCEPT !.pc = "answered", !.status = 400]
  /\ UNCHANGED <<wizard, canvas>>

\* the desktop render returned an image: the print render is requested
\* (src/api/generate-remaining.ts:97-101)
generateWithReference_print ==
  /\ render.pc = "desktop"
  /\ render' = [render EXCEPT
                  !.pc = "print",
                  !.calls = Append(@, [format |-> "print",
                                       parts |-> GenerateWithReferenceParts(
                                                   render.body, "print")])]
  /\ UNCHANGED <<wizard, canvas>>

\* the last render returned an image: 200
renderHandler_ok ==
  /\ render.pc \in {"phone", "print"}
  /\ render' = [render EXCEPT !.pc = "answered", !.status = 200]
  /\ UNCHANGED <<wizard, canvas>>

\* a model call threw or returned no image: 500
renderHandler_failed ==
  /\ render.pc \in {"phone", "desktop", "print"}
  /\ render' = [render EXCEPT !.pc = "answered", !.status = 500]
  /\ UNCHANGED <<wizard, canvas>>

\* ----------------------------------------------------------------- Next
\* no wizard action changes the number of slots or looks into a compressImage
\* call (handleFile sees it resolve or reject); the wizard on its own keeps no
\* ledger
Settled == UNCHANGED <<slots, canvas, render>>
Quiet == UNCHANGED <<slots, canvas, render, ledger>>

Next ==
  \/ Quiet /\ Navigate
  \/ Quiet /\ Reload
  \/ Quiet /\ CheckoutPay
  \/ Quiet /\ CheckoutCancel
  \/ Quiet /\ handleFile
  \/ Quiet /\ \E t \in InFlight : handleFile_decoded(t)
  \/ Quiet /\ \E t \in InFlight : handleFile_decodeFailed(t)
  \/ Quiet /\ \E t \in InFlight : handleFile_analyzed(t)
  \/ Quiet /\ \E t \in InFlight : handleFile_analyzeFailed(t)
  \/ Quiet /\ RevealTimerFires
  \/ Quiet /\ CustomizeTimerFires
  \/ Quiet /\ setBackground
  \/ Quiet /\ setStance
  \/ Quiet /\ startNew
  \/ Quiet /\ handleGenerate
  \/ Quiet /\ \E t \in InFlight : handleGenerate_done(t)
  \/ Quiet /\ \E t \in InFlight : handleGenerate_failed(t)
  \/ Quiet /\ adjustSettings
  \/ Quiet /\ handlePurchase
  \/ Quiet /\ handlePurchase_storageFailed
  \/ Quiet /\ \E t \in InFlight : handlePurchase_redirect(t)
  \/ Quiet /\ \E t \in InFlight : handlePurchase_failed(t)
  \/ Quiet /\ handleDevUnlock
  \/ Quiet /\ \E t \in InFlight : handlePaymentReturn_verified(t)
  \/ Quiet /\ \E t \in InFlight : handlePaymentReturn_unverified(t)
  \/ Quiet /\ \E t \in InFlight : handlePaymentReturn_verifyFailed(t)
  \/ Quiet /\ \E t \in InFlight : generateArtSet_phoneDone(t)
  \/ Quiet /\ \E t \in InFlight : handlePaymentReturn_done(t)
  \/ Quiet /\ \E t \in InFlight : handlePaymentReturn_renderFailed(t)
  \/ Quiet /\ \E t \in InFlight : handleDevUnlock_done(t)
  \/ Quiet /\ \E t \in InFlight : handleDevUnlock_failed(t)
  \/ Quiet /\ \E t \in InFlight : generateRemaining_desktopDone(t)
  \/ Quiet /\ directRequest
  \/ Quiet /\ \E t \in InFlight : directRequest_answered(t)

Spec == Init /\ [][Next]_vars

\* ------------------------------------------------- the record ledger
\* The same handlers, with a ledger kept next to local storage: how many paid
\* pipeline runs were started from the record under 'ridecanvas_pending_art',
\* and which checkout session the purchase that wrote it went on to create.
\* The ledger is history: no handler reads it.
ReturnsInit ==
  /\ WizardInit
  /\ render = NoRender
  /\ canvas = NoCanvas
  /\ slots = MaxInFlight
  /\ runsStarted = 0
  /\ recordSession = IF localStorage # Null THEN checkoutSession ELSE 0

\* localStorage.setItem in handlePurchase (src/App.tsx:225-228): a new record
RecordWritten == runsStarted' = 0 /\ recordSession' = 0
\* the purchase that wrote the record created a session
\* (src/api/create-checkout-session.ts:41-83)
SessionCreated == recordSession' = created' /\ UNCHANGED runsStarted
\* handlePaymentReturn restored the record and issued its render request
\* (src/App.tsx:117-159)
RunCounted ==
  /\ localStorage # Null => runsStarted < MaxRuns
  /\ runsStarted' = IF localStorage # Null THEN runsStarted + 1 ELSE runsStarted
  /\ UNCHANGED recordSession
\* localStorage.removeItem (src/App.tsx:164)
RecordRemoved == runsStarted' = 0 /\ recordSession' = 0
Kept == UNCHANGED ledger

ReturnsNext ==
  \/ Settled /\ Navigate /\ Kept
  \/ Settled /\ CheckoutPay /\ Kept
  \/ Settled /\ handleFile /\ Kept
  \/ Settled /\ (\E t \in InFlight : handleFile_decoded(t)) /\ Kept
  \/ Settled /\ (\E t \in InFlight : handleFile_analyzed(t)) /\ Kept
  \/ Settled /\ RevealTimerFires /\ Kept
  \/ Settled /\ CustomizeTimerFires /\ Kept
  \/ Settled /\ startNew /\ Kept
  \/ Settled /\ handleGenerate /\ Kept
  \/ Settled /\ (\E t \in InFlight : handleGenerate_done(t)) /\ Kept
  \/ Settled /\ handlePurchase /\ RecordWritten
  \/ Settled /\ (\E t \in InFlight : handlePurchase_redirect(t)) /\ SessionCreated
  \/ Settled /\ (\E t \in InFlight : handlePurchase_failed(t)) /\ Kept
  \/ Settled /\ (\E t \in InFlight : handlePaymentReturn_verified(t)) /\ RunCounted
  \/ Settled /\ (\E t \in InFlight : handlePaymentReturn_unverified(t)) /\ Kept
  \/ Settled /\ (\E t \in InFlight : generateArtSet_phoneDone(t)) /\ Kept
  \/ Settled /\ (\E t \in InFlight : generateRemaining_desktopDone(t)) /\ Kept
  \/ Settled /\ (\E t \in InFlight : handlePaymentReturn_done(t)) /\ RecordRemoved
  \/ Settled /\ (\E t \in InFlight : handlePaymentReturn_renderFailed(t)) /\ Kept

SpecReturns == ReturnsInit /\ [][ReturnsNext]_vars

\* ------------------------------------------------ overlapping handlers
\* One visit of the app, without navigation, in which one more handler
\* invocation than in Spec may be suspended at the same time.
RaceInit ==
  /\ WizardInit
  /\ render = NoRender
  /\ canvas = NoCanvas
  /\ slots = MaxInFlight + 1
  /\ runsStarted = 0
  /\ recordSession = 0

RaceNext ==
  \/ Quiet /\ handleFile
  \/ Quiet /\ \E t \in InFlight : handleFile_decoded(t)
  \/ Quiet /\ \E t \in InFlight : handleFile_analyzed(t)
  \/ Quiet /\ \E t \in InFlight : handleFile_analyzeFailed(t)
  \/ Quiet /\ RevealTimerFires
  \/ Quiet /\ CustomizeTimerFires
  \/ Quiet /\ startNew
  \/ Quiet /\ handleGenerate
  \/ Quiet /\ \E t \in InFlight : handleGenerate_done(t)
  \/ Quiet /\ handlePurchase
  \/ Quiet /\ \E t \in InFlight : handlePurchase_redirect(t)
  \/ Quiet /\ \E t \in InFlight : handlePurchase_failed(t)

SpecRace == RaceInit /\ [][RaceNext]_vars

\* ------------------------------------------------ payment returns that end
\* The purchase flow and the payment return left to themselves: the user does
\* not press New, and opens a URL of the app only while no call is pending.
\* Every call a suspended handlePaymentReturn waits for (verify-payment, the
\* render requests) returns, with a result or with an error.
LiveInit ==
  /\ WizardInit
  /\ render = NoRender
  /\ canvas = NoCanvas
  /\ slots = MaxInFlight
  /\ runsStarted = 0
  /\ recordSession = 0

NavigateIdle == tasks = EmptyBag /\ Navigate

\* the call awaited by a suspended handlePaymentReturn returns
CallReturns ==
  \E t \in InFlight :
    \/ handlePaymentReturn_verified(t)
    \/ handlePaymentReturn_unverified(t)
    \/ handlePaymentReturn_verifyFailed(t)
    \/ generateArtSet_phoneDone(t)
    \/ t.owner = "handlePaymentReturn" /\ generateRemaining_desktopDone(t)
    \/ handlePaymentReturn_done(t)
    \/ handlePaymentReturn_renderFailed(t)

LiveNext ==
  \/ Quiet /\ NavigateIdle
  \/ Quiet /\ CheckoutPay
  \/ Quiet /\ CheckoutCancel
  \/ Quiet /\ handleFile
  \/ Quiet /\ \E t \in InFlight : handleFile_decoded(t)
  \/ Quiet /\ \E t \in InFlight : handleFile_analyzed(t)
  \/ Quiet /\ RevealTimerFires
  \/ Quiet /\ CustomizeTimerFires
  \/ Quiet /\ handleGenerate
  \/ Quiet /\ \E t \in InFlight : handleGenerate_done(t)
  \/ Quiet /\ handlePurchase
  \/ Quiet /\ \E t \in InFlight : handlePurchase_redirect(t)
  \/ Quiet /\ \E t \in InFlight : handlePaymentReturn_verified(t)
  \/ Quiet /\ \E t \in InFlight : handlePaymentReturn_unverified(t)
  \/ Quiet /\ \E t \in InFlight : handlePaymentReturn_verifyFailed(t)
  \/ Quiet /\ \E t \in InFlight : generateArtSet_phoneDone(t)
  \/ Quiet /\ \E t \in InFlight : generateRemaining_desktopDone(t)
  \/ Quiet /\ \E t \in InFlight : handlePaymentReturn_done(t)
  \/ Quiet /\ \E t \in InFlight : handlePaymentReturn_renderFailed(t)

SpecLive == LiveInit /\ [][LiveNext]_vars /\ WF_vars(Quiet /\ CallReturns)

\* ------------------------------------------------ one compressImage call
\* fileToGenerativePart(file) for an image file: reader.readAsDataURL is
\* pending (src/services/geminiService.ts:72-77, 84-86); the wizard waits
CompressInit ==
  /\ WizardInit
  /\ render = NoRender
  /\ page = "app"
  /\ url = NoParams
  /\ slots = MaxInFlight
  /\ runsStarted = 0
  /\ recordSession = 0
  /\ \E decodable \in BOOLEAN, w, h \in ImageSides :
       canvas = Canvas("reading", decodable, w, h)

CompressNext ==
  \/ compressImage_onerror
  \/ compressImage_resize
  \/ compressImage_encode
  \/ compressImage_lowerQuality
  \/ compressImage_shrink
  \/ compressImage_resolve

SpecCompress == CompressInit /\ [][CompressNext]_vars

\* ------------------------------------------------ one render request
\* A request body arrives at one of the two render endpoints; the wizard is
\* not involved.
PromptInit ==
  /\ WizardInit
  /\ page = "app"
  /\ url = NoParams
  /\ canvas = NoCanvas
  /\ slots = MaxInFlight
  /\ runsStarted = 0
  /\ recordSession = 0
  /\ \E endpoint \in {"generate-art", "generate-remaining"}, body \in RenderBodies :
       render = Render(endpoint, body)

PromptNext ==
  \/ generateArtHandler
  \/ generateRemainingHandler
  \/ generateWithReference_print
  \/ renderHandler_ok
  \/ renderHandler_failed

SpecPrompt == PromptInit /\ [][PromptNext]_vars

\* =============================================================== claims
PaymentReturn == "handlePaymentReturn"
DevUnlock == "handleDevUnlock"
IsModelCall(c) == c \in {"model:phone", "model:desktop", "model:print"}
ModelCalls(log) == SelectSeq(log, IsModelCall)
NoRepeat(log) == \A i, j \in DOMAIN log : log[i] = log[j] => i = j
NoPaymentParams == url.session_id = 0 /\ ~url.cancelled /\ ~url.art

\* C1: the remaining formats are requested by the app, and hasPaid with step
\* COMPLETE or a full art set exists, only for a checkout session that the
\* provider holds as paid.
C1_UnlockOnlyAfterVerifiedPayment ==
  /\ \A t \in InFlight :
       t.owner \in {PaymentReturn, DevUnlock} /\ t.kind \in {"desktop", "print"}
         => t.arg \in paid
  /\ (step = COMPLETE /\ hasPaid) \/ artSet # Null => paid # {}

\* C2: a payment return for a session that is not paid never gets past the
\* verification call, and when it ends the only call it has issued is
\* verify-payment, no render request was sent and the step is PREVIEW.
C2_UnverifiedReturnRendersNothing ==
  /\ \A t \in InFlight :
       t.owner = PaymentReturn /\ t.arg \notin paid
         => t.kind = "verify" /\ t.log = <<"verify-payment">>
  /\ last.owner = PaymentReturn /\ last.arg \notin paid
       => /\ last.result \in {"unverified", "verifyFailed"}
          /\ last.log = <<"verify-payment">>
          /\ sent = Null
          /\ step = PREVIEW

\* C2 witness: a return whose verification reported "not paid" has ended.
C2_Witness ==
  last.owner = PaymentReturn /\ last.result = "unverified" /\ step = PREVIEW

\* C3: every generate-remaining request of the app carries a rendered phone
\* image as its reference, and a generate-remaining request without a
\* reference is answered 400 with no model call issued for it.
C3_RemainingNeedsReference ==
  /\ \A t \in InFlight :
       "generate-remaining" \in Range(t.log) =>
         /\ t.owner # "direct" => t.ref \in Images
         /\ t.ref = 0 => /\ t.kind = "badRequest"
                         /\ t.log[Len(t.log)] = "generate-remaining"
  /\ "generate-remaining" \in Range(last.log) /\ last.ref = 0
       => /\ last.owner = "direct"
          /\ last.result = "400"
          /\ ModelCalls(last.log) = <<>>

\* C3 witness: the endpoint holds a request that has a photo and an analysis
\* but no previewArt, and has refused it.
C3_Witness ==
  /\ sent # Null
  /\ Val(sent).image # 0 /\ Val(sent).analysis # Null /\ Val(sent).previewArt = 0
  /\ \E t \in InFlight : t.owner = "direct" /\ t.kind = "badRequest"

\* C4: when an unlock has succeeded from a preview (the persisted one on a
\* payment return, the current one on a dev unlock), the phone image of the
\* art set is that preview and the model calls of the unlock are exactly the
\* desktop and the print render.
C4_PreviewReusedAsPhone ==
  /\ last.owner = PaymentReturn /\ last.result = "ok" /\ previewArt # 0
       => /\ artSet # Null
          /\ Val(artSet).phone = previewArt
          /\ last.ref = previewArt
          /\ ModelCalls(last.log) = <<"model:desktop", "model:print">>
  /\ last.owner = DevUnlock /\ last.result = "ok"
       => /\ artSet # Null
          /\ last.ref \in Images
          /\ Val(artSet).phone = last.ref
          /\ ModelCalls(last.log) = <<"model:desktop", "model:print">>

\* C4 witness: a payment return whose record held a preview has completed.
C4_Witness ==
  /\ last.owner = PaymentReturn /\ last.result = "ok"
  /\ previewArt # 0 /\ step = COMPLETE /\ hasPaid

\* C5: generateArtSet runs only inside a payment return for a paid session
\* whose record holds no preview; it issues the phone render first, then the
\* remaining-formats request with the phone output as reference, and the set
\* it returns has that output as its phone field.
C5_ArtSetIsPreviewThenRemaining ==
  /\ \A t \in InFlight :
       "generate-art" \in Range(t.log) /\ t.owner # "handleGenerate"
         => /\ t.owner = PaymentReturn
            /\ t.arg \in paid
            /\ t.st # Null /\ Val(t.st).previewArt = 0
            /\ \/ t.kind = "phone" /\ t.ref = 0
                    /\ t.log = <<"verify-payment", "generate-art", "model:phone">>
               \/ t.kind \in {"desktop", "print"} /\ t.ref \in Images
                    /\ SubSeq(t.log, 1, 5) =
                         <<"verify-payment", "generate-art", "model:phone",
                           "generate-remaining", "model:desktop">>
  /\ last.result = "ok" /\ "generate-art" \in Range(last.log)
         /\ last.owner # "handleGenerate"
       => /\ last.owner = PaymentReturn
          /\ last.log = <<"verify-payment", "generate-art", "model:phone",
                          "generate-remaining", "model:desktop", "model:print">>
          /\ artSet # Null /\ Val(artSet).phone = last.ref
          /\ last.ref \in Images

\* C5 witness: a payment return that went through generateArtSet has completed.
C5_Witness ==
  /\ last.owner = PaymentReturn /\ last.result = "ok"
  /\ "generate-art" \in Range(last.log)
  /\ step = COMPLETE

\* C6: when the paid render of a payment return fails after the record's
\* preview was passed on as reference, the step is PREVIEW and previewArt
\* holds that preview.
C6_FailedPaidRenderKeepsPreview ==
  last.owner = PaymentReturn /\ last.result = "renderFailed"
    /\ "generate-art" \notin Range(last.log)
    => step = PREVIEW /\ previewArt = last.ref

\* C7: right after handlePaymentReturn has restored the record and the effects
\* of the restore have run, photo, analysis, background, fidelity, position,
\* stance and selected mods equal the fields of the record in storage.
C7_RestoredEqualsPersisted ==
  last.owner = PaymentReturn /\ last.result = "restored"
    => LET state == ParseState(Val(localStorage))
       IN /\ imageBase64 = state.imageBase64
          /\ analysis = state.analysis
          /\ background = state.background
          /\ fidelity = state.fidelity
          /\ position = state.position
          /\ stance = state.stance
          /\ selectedMods = state.selectedMods

\* C8: when a payment return has ended, whatever its outcome, or a cancel has
\* been processed, the URL holds none of session_id, cancelled and art.
C8_PaymentParamsCleared ==
  \/ /\ last.owner = PaymentReturn
     /\ last.result \in {"ok", "noRecord", "unverified", "verifyFailed",
                         "renderFailed"}
  \/ last.owner = "mount" /\ last.result = "cancelled"
  => NoPaymentParams

\* C9: at the redirect to checkout the record is in storage, and when a
\* payment return for a paid session has ended after its verification the
\* record is not in storage.
C9_RecordLifecycle ==
  /\ last.owner = "handlePurchase" /\ last.result = "redirect"
       => localStorage # Null
  /\ last.owner = PaymentReturn /\ last.arg \in paid
         /\ last.result \in {"ok", "noRecord", "renderFailed"}
       => localStorage = Null

\* C10: no handler invocation issues the same external call twice, and the
\* step in which an invocation ends in a failure sends no request.
C10_NoAutomaticRetry ==
  /\ \A t \in InFlight : NoRepeat(t.log)
  /\ NoRepeat(last.log)
  /\ last.result \in {"fail", "decodeFailed", "unverified", "verifyFailed",
                      "renderFailed", "400", "500"}
       => sent = Null

\* C10 witness: a preview render has failed and nothing is in flight.
C10_Witness ==
  /\ last.owner = "handleGenerate" /\ last.result = "fail"
  /\ tasks = EmptyBag /\ step = CUSTOMIZE

RendersReturned(t) ==
  (IF "model:phone" \in Range(t.log) /\ t.kind # "phone" THEN 1 ELSE 0)
    + (IF t.desktop # 0 THEN 1 ELSE 0)
RendersOutstanding(t) == Len(ModelCalls(t.log)) - RendersReturned(t)
IsPrefix(a, b) == Len(a) <= Len(b) /\ a = SubSeq(b, 1, Len(a))

\* C19: the renders of one pipeline run are sequential: the print render is
\* issued only once the desktop render has returned, a run that ends on a
\* failed desktop render has issued no print render, and at no time does one
\* run have two render calls outstanding.
C19_RendersSequential ==
  /\ \A t \in InFlight :
       /\ "model:print" \in Range(t.log) => t.desktop \in Images
       /\ t.desktop = 0 => "model:print" \notin Range(t.log)
       /\ RendersOutstanding(t) <= 1
       /\ \/ IsPrefix(ModelCalls(t.log), <<"model:phone", "model:desktop", "model:print">>)
          \/ IsPrefix(ModelCalls(t.log), <<"model:desktop", "model:print">>)
  /\ (last.result \in {"renderFailed", "fail", "500"} /\ last.log # <<>>
        /\ last.log[Len(last.log)] = "model:desktop")
       => "model:print" \notin Range(last.log)

\* the print render of a paid run is outstanding, its desktop render returned
C19_Witness ==
  \E t \in InFlight :
    /\ t.owner = PaymentReturn
    /\ t.kind = "print"
    /\ t.desktop \in Images
    /\ RendersOutstanding(t) = 1

\* C14: when the uploaded file cannot be decoded, handleFile raises an alert
\* asking for a different photo, the wizard is at UPLOAD and the invocation
\* has issued no analysis call.
C14_UndecodableFileIsReported ==
  (last.owner = "handleFile" /\ last.result = "decodeFailed")
    => /\ last.alert # ""
       /\ step = UPLOAD
       /\ "analyze-vehicle" \notin Range(last.log)

\* C17: a call that was in flight when the user pressed New is abandoned: the
\* step in which it completes or fails leaves the step, the photo, the
\* analysis, the preview, the art set and the paid flag as they were.
C17_AbandonedCallChangesNothing ==
  [][(last'.owner # "none" /\ last'.abandoned)
       => UNCHANGED <<step, imageBase64, analysis, previewArt, artSet, hasPaid>>]_vars

\* C13: analyze fails, and returns no VehicleAnalysis, when the model call
\* errors, when the model's text is not valid JSON, or when the parsed result
\* omits a required field; the wizard is then back at UPLOAD.
C13_AnalyzeRejectsBadAnswers ==
  (last.owner = "handleFile"
     /\ last.cause \in {"modelError", "invalidJSON", "incomplete"})
    => /\ last.result = "fail"
       /\ step = UPLOAD

\* C15: a stored pending-purchase record is single-use: whatever payment
\* returns are handled against the same local storage, at most one paid
\* render pipeline run is started from one record.
C15_RecordIsSingleUse == runsStarted <= 1

\* C16: a verified return restores the record written for that same
\* checkout: the session the return carries is the one created by the
\* purchase that wrote the restored record, never another purchase's record.
C16_ReturnRestoresOwnRecord ==
  (last.owner = PaymentReturn /\ last.result = "restored")
    => recordSession = last.arg

\* C18: an analysis call and a checkout-session creation call are never in
\* flight at the same time, whatever the user does (New included).
C18_AnalysisAndCheckoutExclusive ==
  ~ \E a, c \in InFlight : a.kind = "analyze" /\ c.kind = "checkout"

\* the input is above the dimension ceiling, or its payload at the starting
\* quality is above the size ceiling
AboveCeiling ==
  \/ canvas.imgWidth > MAX_IMAGE_DIMENSION
  \/ canvas.imgHeight > MAX_IMAGE_DIMENSION
  \/ canvas.encodes # <<>> /\ canvas.encodes[1].len > MAX_PAYLOAD_SIZE_BYTES

\* C12: for every decodable input above the size or the dimension ceiling,
\* compressImage does not reject, and what it resolves with is at most
\* MAX_PAYLOAD_SIZE_BYTES long, from a canvas of at most MAX_IMAGE_DIMENSION
\* on both sides.
C12_OversizedInputIsBroughtUnderCeiling ==
  (canvas.decodable /\ AboveCeiling)
    => /\ canvas.pc # "rejected"
       /\ canvas.pc = "resolved"
            => /\ canvas.length <= MAX_PAYLOAD_SIZE_BYTES
               /\ canvas.canvasWidth <= MAX_IMAGE_DIMENSION
               /\ canvas.canvasHeight <= MAX_IMAGE_DIMENSION

\* the encodings made by the loop: all but the first, and but the one of the shrink
LoopEncodes ==
  SelectSeq(canvas.encodes,
            LAMBDA e : e.w = canvas.width /\ e.h = canvas.height)
Shrunk == canvas.pc = "resolved" /\ Len(canvas.encodes) > Len(LoopEncodes)

\* C20: the loop lowers the quality by 0.1 per encoding from the starting
\* quality and never encodes below the floor of 0.3; it makes a bounded
\* number of encodings; and the 0.7x shrink happens only when the payload
\* encoded at the floor quality is still over the ceiling.
C20_QualityLoopStopsAtFloor ==
  canvas.pc \in {"loop", "resolved"}
    => /\ \A i \in DOMAIN LoopEncodes :
            /\ LoopEncodes[i].q = START_QUALITY - (i - 1) * QUALITY_STEP
            /\ LoopEncodes[i].q >= QUALITY_FLOOR
       /\ Len(LoopEncodes) <= 1 + (START_QUALITY - QUALITY_FLOOR) \div QUALITY_STEP + 1
       /\ Shrunk => \E i \in DOMAIN LoopEncodes :
                      /\ LoopEncodes[i].q = QUALITY_FLOOR
                      /\ LoopEncodes[i].len > MAX_PAYLOAD_SIZE_BYTES

\* the first encoding, made at the starting quality on the resized canvas
FirstEncoding == canvas.encodes[1]

\* C21: for an input whose first encoding, at the starting quality, is at most
\* MAX_PAYLOAD_SIZE_BYTES long, compressImage resolves with that encoding: no
\* other encoding is made, the quality stays the starting quality and the
\* canvas keeps the sides of the max-dimension resize.
C21_SmallInputKeepsFirstEncoding ==
  (canvas.pc = "resolved" /\ FirstEncoding.len <= MAX_PAYLOAD_SIZE_BYTES)
    => /\ canvas.encodes = <<FirstEncoding>>
       /\ canvas.length = FirstEncoding.len
       /\ canvas.quality = START_QUALITY
       /\ FirstEncoding.q = START_QUALITY
       /\ canvas.canvasWidth = canvas.width /\ canvas.canvasHeight = canvas.height
       /\ <<canvas.width, canvas.height>>
            \in ResizedSides(canvas.imgWidth, canvas.imgHeight)

\* a photo larger than the maximum whose first encoding is exactly at the
\* ceiling has been resolved
C21_Witness ==
  /\ canvas.pc = "resolved"
  /\ canvas.imgWidth > MAX_IMAGE_DIMENSION
  /\ FirstEncoding.len = MAX_PAYLOAD_SIZE_BYTES

\* C30: for every positive input width and height, the width and the height
\* after the resize are both at least 1 and at most MAX_IMAGE_DIMENSION, and
\* when the input exceeded the maximum the longer side is MAX_IMAGE_DIMENSION.
C30_ResizedSidesWithinBounds ==
  (canvas.pc \in {"resized", "loop", "resolved"}
     /\ canvas.imgWidth > 0 /\ canvas.imgHeight > 0)
    => /\ canvas.width \in 1..MAX_IMAGE_DIMENSION
       /\ canvas.height \in 1..MAX_IMAGE_DIMENSION
       /\ (canvas.imgWidth > MAX_IMAGE_DIMENSION
             \/ canvas.imgHeight > MAX_IMAGE_DIMENSION)
            => Larger(canvas.width, canvas.height) = MAX_IMAGE_DIMENSION

\* C25: whenever the step is PREVIEW, the preview image, the photo and the
\* analysis are in memory, also after a cancelled or an unverified payment
\* return.
C25_PreviewStepHasPreview ==
  step = PREVIEW => previewArt # 0 /\ imageBase64 # 0 /\ analysis # Null

\* C27: whenever the step is CUSTOMIZE, the photo and its analysis are in
\* memory: the reveal timers lead to CUSTOMIZE only for the upload whose
\* analysis completed, and not after the user has left ANALYZING.
C27_CustomizeStepHasAnalysis ==
  step = CUSTOMIZE
    => /\ imageBase64 # 0
       /\ analysis # Null
       /\ Val(analysis).photo = imageBase64

\* C28: the stance of every render request is one of the options
\* getStanceOptions offers for the analysis of the same request.
C28_SentStanceIsOffered ==
  (sent # Null /\ Val(sent).analysis # Null)
    => Val(sent).stance \in Range(getStanceOptions(Val(sent).analysis))

\* the upload being analyzed, from setStep(ANALYZING) of handleFile on
NewUploadAccepted == step = ANALYZING

\* C29: whenever the step is COMPLETE, hasPaid is true and artSet holds a
\* phone, a desktop and a print image; hasPaid is never true while artSet is
\* null; and the step in which handleFile accepts a new upload leaves hasPaid
\* false and artSet and previewArt null.
C29_CompleteMeansPaidFullSet ==
  /\ step = COMPLETE
       => /\ hasPaid
          /\ artSet # Null
          /\ Val(artSet).phone \in Images
          /\ Val(artSet).desktop \in Images
          /\ Val(artSet).print \in Images
  /\ hasPaid => artSet # Null
  /\ NewUploadAccepted => ~hasPaid /\ artSet = Null /\ previewArt = 0

\* a paid run has completed with three images
C29_Witness ==
  /\ step = COMPLETE /\ hasPaid /\ artSet # Null
  /\ last.owner = PaymentReturn /\ last.result = "ok"
  /\ Val(artSet).print \in Images

\* a payment return is under way: handlePaymentReturn is suspended at an await
ReturnUnderWay == \E t \in InFlight : t.owner = PaymentReturn
ReturnOver == ~ReturnUnderWay

\* C26: every payment return whose calls return comes to an end with the
\* wizard at COMPLETE or at PREVIEW, no longer at GENERATING, also when the
\* session is paid and no record is in storage.
C26_ReturnLeavesGenerating ==
  ReturnUnderWay ~> (ReturnOver /\ step \in {COMPLETE, PREVIEW})

\* the text part of a model call, the last of its parts
PromptOf(call) == call.parts[Len(call.parts)].text
ImagesOf(call) == {call.parts[i].inlineData : i \in DOMAIN call.parts} \ {0}
BasePromptOf(body) == buildBasePrompt(BasePromptParams(body))

\* C22: the preview render carries the original photo and the
\* first-generation prompt of the phone format and no reference image; each
\* render of a remaining format carries the reference image first, the
\* original photo second, and a follow-up prompt that holds the aspect-ratio
\* string of its format (16:9 for desktop, 4:3 for print) and the instruction
\* to keep the vehicle's proportions.
C22_RenderRequestsCarryTheirInputs ==
  \A i \in DOMAIN render.calls :
    LET call == render.calls[i]
        prompt == PromptOf(call)
    IN /\ call.format = "phone"
            => /\ render.endpoint = "generate-art"
               /\ Len(call.parts) = 2
               /\ call.parts[1].inlineData = render.body.image
               /\ call.parts[1].inlineData = REQUEST_PHOTO
               /\ ImagesOf(call) = {REQUEST_PHOTO}
               /\ IsInfix(<<STYLE_REFERENCE_NOTE>>, prompt)
               /\ IsInfix(<<OUTPUT_FIRST_HEAD, "9:19.5", OUTPUT_FIRST_TAIL>>, prompt)
               /\ ~IsInfix(<<MATCH_REFERENCE>>, prompt)
       /\ call.format \in {"desktop", "print"}
            => /\ render.endpoint = "generate-remaining"
               /\ Len(call.parts) = 3
               /\ call.parts[1].inlineData = render.body.previewArt
               /\ call.parts[1].inlineData = REQUEST_PREVIEW
               /\ call.parts[2].inlineData = render.body.image
               /\ call.parts[2].inlineData = REQUEST_PHOTO
               /\ IsInfix(<<MATCH_REFERENCE>>, prompt)
               /\ IsInfix(<<KEEP_PROPORTIONS>>, prompt)
               /\ IsInfix(<<SAME_ARTWORK_HEAD,
                            IF call.format = "desktop" THEN "16:9" ELSE "4:3",
                            SAME_ARTWORK_TAIL>>, prompt)
               /\ IsInfix(BasePromptOf(render.body), prompt)

\* both remaining formats have been requested and the endpoint answered 200
C22_Witness ==
  /\ render.endpoint = "generate-remaining"
  /\ render.pc = "answered" /\ render.status = 200
  /\ Len(render.calls) = 2
  /\ render.calls[2].format = "print"

\* C23: for each of the three fidelity modes, the base prompt, and every
\* prompt sent that is built from it, holds the instruction string of that
\* mode and neither of the other two.
C23_FidelityStringIsExclusive ==
  render.body.fidelity \in FidelityModes
    => \A i \in DOMAIN render.calls :
         \A m \in FidelityModes :
           /\ IsInfix(FIDELITY_PROMPTS[m], BasePromptOf(render.body))
                <=> m = render.body.fidelity
           /\ IsInfix(FIDELITY_PROMPTS[m], PromptOf(render.calls[i]))
                <=> m = render.body.fidelity

\* a render has been requested with Factory Fresh
C23_Witness ==
  /\ render.body.fidelity = FACTORY_FRESH
  /\ render.calls # <<>>
  /\ IsInfix(FIDELITY_PROMPTS[FACTORY_FRESH], PromptOf(render.calls[1]))

\* the stance text of a prompt: what stands between the stance and the scene label
IndexOf(seq, x) == CHOOSE i \in DOMAIN seq : seq[i] = x
StanceText(prompt) ==
  SubSeq(prompt, IndexOf(prompt, STANCE_LABEL) + 1, IndexOf(prompt, SCENE_LABEL) - 1)
PopularWheelsOf(body) ==
  IF Val(body.analysis).popularWheels = Null THEN <<>>
  ELSE Val(Val(body.analysis).popularWheels)

\* C24: in every prompt sent, when the stance is Lowered + Wheels and the
\* analysis has a popular wheel, the stance text is the lowered text with the
\* name of the first popular wheel in it; with no popular wheel it is the
\* fixed lowered string; for any other stance no wheel name is in the stance
\* text.
C24_LoweredStanceNamesFirstWheel ==
  \A i \in DOMAIN render.calls :
    LET text == StanceText(PromptOf(render.calls[i]))
        wheels == PopularWheelsOf(render.body)
    IN /\ (render.body.stance = LOWERED /\ wheels # <<>>)
            => /\ wheels[1].name \in Range(text)
               /\ text = <<LOWERED_HEAD, wheels[1].name, LOWERED_TAIL>>
       /\ (render.body.stance = LOWERED /\ wheels = <<>>)
            => text = STANCE_PROMPTS[LOWERED]
       /\ render.body.stance # LOWERED
            => \A n \in WheelNames : n \notin Range(text)

\* a lowered render of a vehicle with two popular wheels has been requested
C24_Witness ==
  /\ render.calls # <<>>
  /\ render.body.stance = LOWERED
  /\ Len(PopularWheelsOf(render.body)) = 2
  /\ PopularWheelsOf(render.body)[1].name # PopularWheelsOf(render.body)[2].name

====
